---- MODULE Spec2Model ----
(***************************************************************************)
(* Compaction task of the storage engine                                   *)
(* (src/src/storage/src/compaction/task.rs).                               *)
(*                                                                         *)
(* A CompactionTaskImpl owns the outputs of one compaction round.  run()   *)
(* marks the inputs compacting, drains the outputs into one build future   *)
(* per output, joins them, extends the compacted inputs with the expired   *)
(* files and commits one RegionEdit.  Drop unmarks the inputs of the       *)
(* outputs the task still owns.                                            *)
(***************************************************************************)
EXTENDS Integers, Sequences, FiniteSets, TLC

(***************************************************************************)
(* Bounds of the model.                                                    *)
(***************************************************************************)
\* SST files live in the region before the first round (file ids 1..NumFiles).
NumFiles == 2
\* Compaction tasks that are ever constructed.
NumTasks == 2
\* Time buckets the picker may plan an output for.
NumBuckets == 2
\* Files the picker hands to one task as expired.
MaxExpired == 1
\* Alterations of the region's metadata (SpecAlter only).
MaxAlter == 1
\* Compaction requests submitted to the scheduler (SchedSpec only).
NumRequests == 6
\* Addresses a meta server can have (PeerSpec only).
NumAddrs == 3
\* Width in bits of the integers that stand for i64 (64 in the program).
IntBits == 16
\* Calls of start and shutdown on one Datanode (DatanodeSpec only).
MaxCalls == 3
\* Longest list of input types given to set_input_types (StoreSpec only).
MaxTypes == 2
\* How far from the least i64, from 0 and from the greatest i64 the bucket
\* bounds and widths of ArithSpec are drawn.
EdgeSpan == 6

TaskIds == 1..NumTasks
BucketIds == 1..NumBuckets
RequestIds == 1..NumRequests
Addrs == 1..NumAddrs

\* shared_data.id() of the region the tasks compact.
RegionId == 1
\* Width of one time bucket (CompactionOutput.bucket), in seconds.
BucketWidth == 100

VARIABLES
    files,             \* live file set of the region (what the manifest describes)
    compacting,        \* FileHandle.compacting, by file id, for every handle that exists
    region_version,    \* shared_data.version_control.metadata().version()
    pc,                \* position of each task
    outputs,           \* CompactionTaskImpl.outputs
    expired_ssts,      \* CompactionTaskImpl.expired_ssts
    futs,              \* merge_ssts: the build futures handed to join_all
    compacted_inputs,  \* merge_ssts: the HashSet compacted_inputs
    edit,              \* the RegionEdit passed to write_edit_and_apply
    result,            \* what run() returned
    planned,           \* history: the outputs and expired files the task was constructed with
    commit_calls,      \* history: number of calls of write_edit_and_apply
    sst_files,         \* SST files in the object store, by file id
    schema,            \* CompactionTaskImpl.schema: the region version whose schema the task captured
    sched,             \* scheduler: state of every compaction request (SchedSpec only)
    sched_queue,       \* scheduler: the requests waiting for a slot, oldest first
    peer,              \* MetaPeerClient: the call of range or batch_get in progress (PeerSpec only)
    auth,              \* MockUserProvider and the authorize call in progress (AuthSpec only)
    arith,             \* CompactionOutput::build: one computation of the reader's upper bound (ArithSpec only)
    datanode,          \* Datanode: the call of start or shutdown in progress and what it did (DatanodeSpec only)
    creator            \* AggrFuncTypeStore: the stored input types and the last call of the generated methods (StoreSpec only)

vars == <<files, compacting, region_version, pc, outputs, expired_ssts, futs,
          compacted_inputs, edit, result, planned, commit_calls, sst_files, schema, sched, sched_queue, peer, auth, arith, datanode, creator>>

(***************************************************************************)
(* Values.                                                                 *)
(***************************************************************************)
Range(s) == {s[i] : i \in 1..Len(s)}

Min(S) == CHOOSE x \in S : \A y \in S : x <= y
Max(S) == CHOOSE x \in S : \A y \in S : x >= y

RECURSIVE SumSizes(_)
SumSizes(S) ==
    IF S = {} THEN 0
    ELSE LET m == CHOOSE x \in S : TRUE IN m.file_size + SumSizes(S \ {m})

\* A Vec<FileHandle> listing the handles of a set of files, by file id.
RECURSIVE HandleVec(_)
HandleVec(S) ==
    IF S = {} THEN <<>>
    ELSE LET m == CHOOSE x \in S : \A y \in S : x.file_id <= y.file_id
         IN <<m>> \o HandleVec(S \ {m})

\* FileMeta of the SST files the region starts with: level 0, overlapping
\* time ranges [0,100), [50,150), ...
InitialFile(i) ==
    [region_id |-> RegionId, file_id |-> i,
     time_range |-> <<50 * (i - 1), 50 * (i - 1) + 100>>,
     level |-> 0, file_size |-> 1]

NotSubmitted == [status |-> "new", waited |-> FALSE]
NoCheck == [none |-> TRUE]
ArithIdle == [pc |-> "idle", bucket_bound |-> 0, bucket |-> 1, upper |-> 0,
              panicked |-> FALSE]
NoRequest == [none |-> TRUE]

\* impl Default for MockUserProvider
MockUserProviderDefault ==
    [catalog |-> "greptime", schema |-> "public", username |-> "greptime"]

\* #[builder(default = "3")] max_retry_count
max_retry_count == 3

\* Option<ElectionRef>: None.
NoElection == [some |-> FALSE]

\* A client as the builder makes it by default, with no call in progress.
\* attempts, sleeps, sent and last are the history of the call: the remote
\* attempts begun, the retry delays waited, where each request went, and
\* what the last attempt returned.
PeerIdle == [pc |-> "idle", func_name |-> "", tries |-> 0, check |-> NoCheck,
             result |-> [pending |-> TRUE],
             election |-> NoElection, max_retry_count |-> max_retry_count,
             opts |-> [some |-> FALSE], attempts |-> 0, sleeps |-> 0,
             sent |-> <<>>, last |-> [pending |-> TRUE]]

AuthIdle == [provider |-> MockUserProviderDefault, pc |-> "idle",
             request |-> NoRequest, result |-> [pending |-> TRUE]]
NoEdit == [none |-> TRUE]
NoMeta == [none |-> TRUE]
NoError == [none |-> TRUE]
Pending == [pending |-> TRUE]
Ok == [ok |-> TRUE]
Err(e) == [ok |-> FALSE, err |-> e]

\* ArcSwapOption<Vec<ConcreteDataType>>: None.
NoTypes == [some |-> FALSE]

\* A creator struct whose input_types were never set, and no call made.
CreatorNew == [input_types |-> NoTypes, call |-> [none |-> TRUE], result |-> Pending]

\* A Datanode no method of which has been called.
DatanodeIdle == [pc |-> "idle", calls |-> 0, log |-> <<>>, result |-> Pending]

(***************************************************************************)
(* std::collections::HashSet<FileMeta>: a collection without duplicates,   *)
(* kept here in insertion order (its iteration order is unspecified and    *)
(* nothing below depends on it).                                           *)
(***************************************************************************)
HashSetInsert(s, x) == IF x \in Range(s) THEN s ELSE Append(s, x)

RECURSIVE HashSetExtend(_, _)
HashSetExtend(s, xs) ==
    IF xs = <<>> THEN s
    ELSE HashSetExtend(HashSetInsert(s, Head(xs)), Tail(xs))

(***************************************************************************)
(* Collaborators outside task.rs, modelled from their contracts.           *)
(***************************************************************************)
\* FileId::random(): an id no other file has.  The build of output k of
\* task t gets an id of its own, after the ids of the initial files.
FileIdRandom(t, k) == NumFiles + (t - 1) * NumBuckets + k

\* Lower bound of time bucket k.
BucketBound(k) == (k - 1) * BucketWidth

\* A file has rows in [lo, hi).
Overlaps(m, lo, hi) == m.time_range[1] < hi /\ m.time_range[2] > lo

\* Timestamps of the rows of a file: one row every RowStep units of time
\* within the file's time range.
RowStep == 25

Rows(m) == {ts \in m.time_range[1]..(m.time_range[2] - 1) : ts % RowStep = 0}

\* build_sst_reader(schema, sst_layer, files, lower, upper): the rows the
\* merged reader yields, the rows of the files with lower <= ts < upper.
SstReaderRows(inputs, range) ==
    {ts \in UNION {Rows(m) : m \in Range(inputs)} : range[1] <= ts /\ ts < range[2]}

\* AccessLayer::write_sst over the merged reader of `inputs` restricted to
\* [lo, hi): the SstInfo it reports.
WriteSst(inputs, lo, hi) ==
    LET ms == Range(inputs) IN
    [time_range |-> <<Max({lo} \cup {Min({m.time_range[1] : m \in ms})}),
                      Min({hi} \cup {Max({m.time_range[2] : m \in ms})})>>,
     file_size |-> SumSizes(ms)]

\* AccessLayer::write_sst when it succeeds: the object store holds the new
\* file.  Nothing in the task deletes a file from the store.
StoreAfterWrite(store, file_id) == store \cup {file_id}

\* RegionWriter::write_edit_and_apply when it succeeds: the region's live
\* file set with the edit applied.
ApplyEdit(live, e) == (live \ Range(e.files_to_remove)) \cup Range(e.files_to_add)

\* ... its optimistic check of the edit's region_version against the
\* region's current one: an edit that fails it is rejected.
VersionCheck(e, version) == e.region_version = version

\* ... and the handles of the region afterwards: a handle is created, idle,
\* for every file the edit adds.
HandlesAfter(flag, e) ==
    LET added == {m.file_id : m \in Range(e.files_to_add)} IN
    [f \in DOMAIN flag \cup added |-> IF f \in DOMAIN flag THEN flag[f] ELSE FALSE]

(***************************************************************************)
(* CompactionTaskImpl                                                      *)
(***************************************************************************)
\* File ids of the inputs of a list of outputs.
InputIds(outs) ==
    UNION {{m.file_id : m \in Range(outs[k].inputs)} : k \in 1..Len(outs)}

\* (mutant) the flag of every input is flipped instead of set.
mark_files_compacting_flip(outs, flag, c) ==
    [f \in DOMAIN flag |-> IF f \in InputIds(outs) THEN ~flag[f] ELSE flag[f]]

\* mark_files_compacting(&self, compacting): every input of every output
\* the task holds gets the flag.
mark_files_compacting(outs, flag, c) ==
    [f \in DOMAIN flag |-> IF f \in InputIds(outs) THEN c ELSE flag[f]]

\* (mutant) a drop that unmarks nothing.
Drop_nothing(outs, flag) == flag

\* Drop for CompactionTaskImpl, on the outputs the task holds when dropped.
Drop(outs, flag) == mark_files_compacting(outs, flag, FALSE)

\* merge_ssts, the loop over self.outputs.drain(..): what is left in
\* self.outputs once the loop is over.
DrainedOutputs(outs) == <<>>

\* merge_ssts, the loop: compacted_inputs after the loop.
RECURSIVE CompactedInputs(_, _)
CompactedInputs(acc, outs) ==
    IF outs = <<>> THEN acc
    ELSE CompactedInputs(HashSetExtend(acc, Head(outs).inputs), Tail(outs))

\* merge_ssts, the loop: one build future per output, in output order.
BuildFutures(outs) ==
    [k \in 1..Len(outs) |->
        [output |-> outs[k], stage |-> "reader", file_id |-> 0, rows |-> {},
         sst_info |-> NoMeta, meta |-> NoMeta, err |-> NoError, order |-> 0]]

\* The position in which a build that completes now completes among the
\* builds of its round (history: the futures complete in any order).
CompletionOrder(fs) == 1 + Cardinality({k \in 1..Len(fs) : fs[k].stage \in {"ok", "err"}})

\* i64: the least and the greatest value, and the value an arithmetic result
\* wraps to when overflow checks are off.
MinI64 == -(2 ^ (IntBits - 1))

MaxI64 == 2 ^ (IntBits - 1) - 1

I64Wrap(x) == ((x - MinI64) % (2 ^ IntBits)) + MinI64

\* `a + b` on i64 overflows.
AddOverflows(a, b) == a + b < MinI64 \/ a + b > MaxI64

\* (mutant) the upper bound of the reader is the bucket's width alone.
ReaderRange_width_only(output) == <<output.bucket_bound, output.bucket>>

\* CompactionOutput::build, the time range it hands to build_sst_reader:
\* self.bucket_bound, self.bucket_bound + self.bucket.
ReaderRange(output) ==
    <<output.bucket_bound, I64Wrap(output.bucket_bound + output.bucket)>>

\* (mutant) the FileMeta carries the id of the first input instead of the new id.
BuildFileMeta_input_id(output, output_file_id, sst_info) ==
    [region_id |-> RegionId,
     file_id |-> output.inputs[1].file_id,
     time_range |-> sst_info.time_range,
     level |-> output.output_level,
     file_size |-> sst_info.file_size]

\* (mutant) the FileMeta carries the time range of the bucket.
BuildFileMeta_bucket_range(output, output_file_id, sst_info) ==
    [region_id |-> RegionId,
     file_id |-> output_file_id,
     time_range |-> <<output.bucket_bound, output.bucket_bound + output.bucket>>,
     level |-> output.output_level,
     file_size |-> sst_info.file_size]

\* CompactionOutput::build, the FileMeta it returns.
BuildFileMeta(output, output_file_id, sst_info) ==
    [region_id |-> RegionId,
     file_id |-> output_file_id,
     time_range |-> sst_info.time_range,
     level |-> output.output_level,
     file_size |-> sst_info.file_size]

\* (mutant) a join that is over as soon as one future has completed.
JoinReady_any(fs) == fs = <<>> \/ \E k \in 1..Len(fs) : fs[k].stage \in {"ok", "err"}

\* join_all(futs): every future has completed.
JoinReady(fs) == \A k \in 1..Len(fs) : fs[k].stage \in {"ok", "err"}

\* .into_iter().collect::<Result<_>>(): the first error in output order, or
\* the HashSet of all FileMetas.
FailedBuilds(fs) == {k \in 1..Len(fs) : fs[k].stage = "err"}

RECURSIVE CollectMetas(_, _)
CollectMetas(acc, fs) ==
    IF fs = <<>> THEN acc
    ELSE CollectMetas(HashSetInsert(acc, Head(fs).meta), Tail(fs))

\* (mutant) the result of the build that completed first decides.
Collect_first_completed(fs) ==
    LET first == {k \in 1..Len(fs) : fs[k].order = 1} IN
    IF first # {} /\ fs[Min(first)].stage = "err"
    THEN Err(fs[Min(first)].err)
    ELSE [ok |-> TRUE, value |-> CollectMetas(<<>>, SelectSeq(fs, LAMBDA x : x.stage = "ok"))]

\* (mutant) the error of the last failed build in output order.
Collect_last_error(fs) ==
    IF FailedBuilds(fs) # {}
    THEN Err(fs[Max(FailedBuilds(fs))].err)
    ELSE [ok |-> TRUE, value |-> CollectMetas(<<>>, fs)]

\* (mutant) a collect that skips the failed builds.
Collect_skip_failed(fs) ==
    [ok |-> TRUE, value |-> CollectMetas(<<>>, SelectSeq(fs, LAMBDA x : x.stage = "ok"))]

Collect(fs) ==
    IF FailedBuilds(fs) # {}
    THEN Err(fs[Min(FailedBuilds(fs))].err)
    ELSE [ok |-> TRUE, value |-> CollectMetas(<<>>, fs)]

\* (mutant) the expired files are left out when nothing was compacted.
ExtendExpired_unless_empty(compacted, expired) ==
    IF compacted = <<>> THEN <<>> ELSE HashSetExtend(compacted, expired)

\* (mutant) the expired files appended without looking for duplicates.
ExtendExpired_append(compacted, expired) == compacted \o expired

\* run, line 135: compacted.extend(self.expired_ssts.iter().map(FileHandle::meta)).
ExtendExpired(compacted, expired) == HashSetExtend(compacted, expired)

\* (mutant) the edit carries the version the region started with.
RegionEdit_initial_version(version, output, input) ==
    [region_version |-> 0,
     flushed_sequence |-> "None",
     files_to_add |-> output,
     files_to_remove |-> input]

\* (mutant) an edit that adds the file of one output only.
RegionEdit_first_output(version, output, input) ==
    [region_version |-> version,
     flushed_sequence |-> "None",
     files_to_add |-> IF output = <<>> THEN <<>> ELSE <<Head(output)>>,
     files_to_remove |-> input]

\* write_manifest_and_apply: the RegionEdit it builds.
RegionEdit(version, output, input) ==
    [region_version |-> version,
     flushed_sequence |-> "None",
     files_to_add |-> output,
     files_to_remove |-> input]

(***************************************************************************)
(* Initial state: the region holds its initial files, every handle idle,   *)
(* no task constructed.                                                    *)
(***************************************************************************)
Init ==
    /\ files = {InitialFile(i) : i \in 1..NumFiles}
    /\ compacting = [f \in 1..NumFiles |-> FALSE]
    /\ region_version = 0
    /\ pc = [t \in TaskIds |-> "none"]
    /\ outputs = [t \in TaskIds |-> <<>>]
    /\ expired_ssts = [t \in TaskIds |-> <<>>]
    /\ futs = [t \in TaskIds |-> <<>>]
    /\ compacted_inputs = [t \in TaskIds |-> <<>>]
    /\ edit = [t \in TaskIds |-> NoEdit]
    /\ result = [t \in TaskIds |-> Pending]
    /\ planned = [t \in TaskIds |-> [outputs |-> <<>>, expired_ssts |-> <<>>]]
    /\ commit_calls = [t \in TaskIds |-> 0]
    /\ sst_files = 1..NumFiles
    /\ schema = [t \in TaskIds |-> 0]
    /\ sched = [r \in RequestIds |-> NotSubmitted]
    /\ sched_queue = <<>>
    /\ peer = PeerIdle
    /\ auth = AuthIdle
    /\ arith = ArithIdle
    /\ datanode = DatanodeIdle
    /\ creator = CreatorNew

(***************************************************************************)
(* The picker constructs a task: for some buckets, an output at level 1    *)
(* over live files that overlap the bucket and are not compacting; and the *)
(* expired files, any of the live files.                                   *)
(***************************************************************************)
Candidates(k) ==
    {m \in files : /\ ~compacting[m.file_id]
                   /\ Overlaps(m, BucketBound(k), BucketBound(k) + BucketWidth)}

PlannedOutput(k, ins) ==
    [output_level |-> 1, bucket_bound |-> BucketBound(k), bucket |-> BucketWidth,
     inputs |-> HandleVec(ins)]

RECURSIVE PlannedOutputs(_, _)
PlannedOutputs(bs, choice) ==
    IF bs = {} THEN <<>>
    ELSE LET k == Min(bs)
         IN <<PlannedOutput(k, choice[k])>> \o PlannedOutputs(bs \ {k}, choice)

NewTask(t) ==
    /\ pc[t] = "none"
    /\ \A u \in TaskIds : u < t => pc[u] # "none"
    /\ \E bs \in SUBSET BucketIds :
       \E choice \in [bs -> (SUBSET files) \ {{}}] :
       \E expired \in {e \in SUBSET files : Cardinality(e) <= MaxExpired} :
          /\ \A k \in bs : choice[k] \subseteq Candidates(k)
          /\ outputs' = [outputs EXCEPT ![t] = PlannedOutputs(bs, choice)]
          /\ planned' = [planned EXCEPT ![t] = [outputs |-> PlannedOutputs(bs, choice),
                                                 expired_ssts |-> HandleVec(expired)]]
          /\ expired_ssts' = [expired_ssts EXCEPT ![t] = HandleVec(expired)]
    /\ schema' = [schema EXCEPT ![t] = region_version]
    /\ pc' = [pc EXCEPT ![t] = "created"]
    /\ UNCHANGED <<creator, datanode, arith, auth, peer, sched_queue, sched, sst_files, files, compacting, region_version, futs, compacted_inputs,
                   edit, result, commit_calls>>

(***************************************************************************)
(* run(mut self), up to its first suspension point: mark the inputs, then  *)
(* merge_ssts drains the outputs into the build futures.                   *)
(***************************************************************************)
\* (mutant) run() marks the expired files too.
RunBegin_marks_expired(t) ==
    /\ pc[t] = "created"
    /\ compacting' = [f \in DOMAIN compacting |->
                         IF f \in {m.file_id : m \in Range(expired_ssts[t])}
                         THEN TRUE
                         ELSE mark_files_compacting(outputs[t], compacting, TRUE)[f]]
    /\ compacted_inputs' = [compacted_inputs EXCEPT ![t] = CompactedInputs(<<>>, outputs[t])]
    /\ futs' = [futs EXCEPT ![t] = BuildFutures(outputs[t])]
    /\ outputs' = [outputs EXCEPT ![t] = DrainedOutputs(outputs[t])]
    /\ pc' = [pc EXCEPT ![t] = "merging"]
    /\ UNCHANGED <<creator, datanode, arith, auth, peer, sched_queue, sched, schema, sst_files, files, region_version,
                   expired_ssts, edit, result, planned, commit_calls>>

RunBegin(t) ==
    /\ pc[t] = "created"
    /\ compacting' = mark_files_compacting(outputs[t], compacting, TRUE)
    /\ compacted_inputs' = [compacted_inputs EXCEPT ![t] = CompactedInputs(<<>>, outputs[t])]
    /\ futs' = [futs EXCEPT ![t] = BuildFutures(outputs[t])]
    /\ outputs' = [outputs EXCEPT ![t] = DrainedOutputs(outputs[t])]
    /\ pc' = [pc EXCEPT ![t] = "merging"]
    /\ UNCHANGED <<creator, datanode, arith, auth, peer, sched_queue, sched, schema, sst_files, files, region_version, expired_ssts, edit, result, planned,
                   commit_calls>>

(***************************************************************************)
(* CompactionOutput::build of output k: build_sst_reader(..).await, then   *)
(* FileId::random() and write_sst(..).await.                               *)
(***************************************************************************)
BuildReaderOk(t, k) ==
    /\ pc[t] = "merging"
    /\ k \in 1..Len(futs[t])
    /\ futs[t][k].stage = "reader"
    /\ LET o == futs[t][k].output
       IN futs' = [futs EXCEPT ![t][k].stage = "write",
                               ![t][k].rows = SstReaderRows(o.inputs, ReaderRange(o)),
                               ![t][k].file_id = FileIdRandom(t, k)]
    /\ UNCHANGED <<creator, datanode, arith, auth, peer, sched_queue, sched, schema, sst_files, files, compacting, region_version, pc, outputs, expired_ssts,
                   compacted_inputs, edit, result, planned, commit_calls>>

\* (mutant) the file id is allocated before the reader is opened.
BuildReaderErr_allocates(t, k) ==
    /\ pc[t] = "merging"
    /\ k \in 1..Len(futs[t])
    /\ futs[t][k].stage = "reader"
    /\ futs' = [futs EXCEPT ![t][k].stage = "err",
                            ![t][k].order = CompletionOrder(futs[t]),
                            ![t][k].file_id = FileIdRandom(t, k),
                            ![t][k].err = [kind |-> "build_sst_reader", output |-> k]]
    /\ UNCHANGED <<creator, datanode, arith, auth, peer, sched_queue, sched, schema, sst_files, files, compacting, region_version, pc, outputs, expired_ssts,
                   compacted_inputs, edit, result, planned, commit_calls>>

BuildReaderErr(t, k) ==
    /\ pc[t] = "merging"
    /\ k \in 1..Len(futs[t])
    /\ futs[t][k].stage = "reader"
    /\ futs' = [futs EXCEPT ![t][k].stage = "err",
                            ![t][k].order = CompletionOrder(futs[t]),
                            ![t][k].err = [kind |-> "build_sst_reader", output |-> k]]
    /\ UNCHANGED <<creator, datanode, arith, auth, peer, sched_queue, sched, schema, sst_files, files, compacting, region_version, pc, outputs, expired_ssts,
                   compacted_inputs, edit, result, planned, commit_calls>>

BuildWriteOk(t, k) ==
    /\ pc[t] = "merging"
    /\ k \in 1..Len(futs[t])
    /\ futs[t][k].stage = "write"
    /\ LET o == futs[t][k].output
           info == WriteSst(o.inputs, ReaderRange(o)[1], ReaderRange(o)[2])
       IN futs' = [futs EXCEPT ![t][k].stage = "ok",
                               ![t][k].order = CompletionOrder(futs[t]),
                               ![t][k].sst_info = info,
                               ![t][k].meta = BuildFileMeta(o, futs[t][k].file_id, info)]
    /\ sst_files' = StoreAfterWrite(sst_files, futs[t][k].file_id)
    /\ UNCHANGED <<creator, datanode, arith, auth, peer, sched_queue, sched, schema, files, compacting, region_version, pc, outputs, expired_ssts,
                   compacted_inputs, edit, result, planned, commit_calls>>

BuildWriteErr(t, k) ==
    /\ pc[t] = "merging"
    /\ k \in 1..Len(futs[t])
    /\ futs[t][k].stage = "write"
    /\ futs' = [futs EXCEPT ![t][k].stage = "err",
                            ![t][k].order = CompletionOrder(futs[t]),
                            ![t][k].err = [kind |-> "write_sst", output |-> k]]
    /\ UNCHANGED <<creator, datanode, arith, auth, peer, sched_queue, sched, schema, sst_files, files, compacting, region_version, pc, outputs, expired_ssts,
                   compacted_inputs, edit, result, planned, commit_calls>>

(***************************************************************************)
(* merge_ssts returns an error: run logs it and returns it through `?`;    *)
(* the task is dropped as run returns.                                     *)
(***************************************************************************)
\* (mutant) a failed merge is retried: the builds are invoked again.
MergeFailed_retry(t) ==
    /\ pc[t] = "merging"
    /\ JoinReady(futs[t])
    /\ ~Collect(futs[t]).ok
    /\ futs' = [futs EXCEPT ![t] = BuildFutures(planned[t].outputs)]
    /\ UNCHANGED <<creator, datanode, arith, auth, peer, sched_queue, sched, schema, sst_files, files, compacting, region_version, pc, outputs,
                   expired_ssts, compacted_inputs, edit, result, planned, commit_calls>>

\* (mutant) a failed merge makes the files of the builds that succeeded live.
MergeFailed_partial_apply(t) ==
    LET built == SelectSeq(futs[t], LAMBDA x : x.stage = "ok")
        e == [files_to_add |-> [k \in 1..Len(built) |-> built[k].meta]]
    IN
    /\ pc[t] = "merging"
    /\ JoinReady(futs[t])
    /\ ~Collect(futs[t]).ok
    /\ result' = [result EXCEPT ![t] = Collect(futs[t])]
    /\ files' = files \cup Range(e.files_to_add)
    /\ compacting' = Drop(outputs[t], HandlesAfter(compacting, e))
    /\ futs' = [futs EXCEPT ![t] = <<>>]
    /\ pc' = [pc EXCEPT ![t] = "returned"]
    /\ expired_ssts' = [expired_ssts EXCEPT ![t] = <<>>]
    /\ compacted_inputs' = [compacted_inputs EXCEPT ![t] = <<>>]
    /\ UNCHANGED <<creator, datanode, arith, auth, peer, sched_queue, sched, schema, sst_files, region_version, outputs, edit, planned, commit_calls>>

MergeFailed(t) ==
    /\ pc[t] = "merging"
    /\ JoinReady(futs[t])
    /\ ~Collect(futs[t]).ok
    /\ result' = [result EXCEPT ![t] = Collect(futs[t])]
    /\ compacting' = Drop(outputs[t], compacting)
    /\ futs' = [futs EXCEPT ![t] = <<>>]
    /\ pc' = [pc EXCEPT ![t] = "returned"]
    /\ expired_ssts' = [expired_ssts EXCEPT ![t] = <<>>]
    /\ compacted_inputs' = [compacted_inputs EXCEPT ![t] = <<>>]
    /\ UNCHANGED <<creator, datanode, arith, auth, peer, sched_queue, sched, schema, sst_files, files, region_version, outputs, edit, planned, commit_calls>>

(***************************************************************************)
(* merge_ssts returns Ok: run adds the expired files to the compacted      *)
(* inputs, write_manifest_and_apply builds the edit and calls              *)
(* write_edit_and_apply.                                                   *)
(***************************************************************************)
MergeSucceeded(t) ==
    /\ pc[t] = "merging"
    /\ JoinReady(futs[t])
    /\ Collect(futs[t]).ok
    /\ edit' = [edit EXCEPT ![t] =
                  RegionEdit(region_version, Collect(futs[t]).value,
                             ExtendExpired(compacted_inputs[t], expired_ssts[t]))]
    /\ commit_calls' = [commit_calls EXCEPT ![t] = @ + 1]
    /\ futs' = [futs EXCEPT ![t] = <<>>]
    /\ pc' = [pc EXCEPT ![t] = "committing"]
    /\ compacted_inputs' = [compacted_inputs EXCEPT ![t] = <<>>]
    /\ UNCHANGED <<creator, datanode, arith, auth, peer, sched_queue, sched, schema, sst_files, files, compacting, region_version, outputs, expired_ssts,
                   result, planned>>

(***************************************************************************)
(* write_edit_and_apply returns: Ok with the edit applied (when the edit   *)
(* passes the version check), or an error with the region as it was; run   *)
(* returns that and the task is dropped                                    *)
(* (a dropped task's fields are gone: they read as empty from then on).    *)
(***************************************************************************)
CommitOk(t) ==
    /\ pc[t] = "committing"
    /\ VersionCheck(edit[t], region_version)
    /\ files' = ApplyEdit(files, edit[t])
    /\ compacting' = Drop(outputs[t], HandlesAfter(compacting, edit[t]))
    /\ result' = [result EXCEPT ![t] = Ok]
    /\ pc' = [pc EXCEPT ![t] = "returned"]
    /\ expired_ssts' = [expired_ssts EXCEPT ![t] = <<>>]
    /\ UNCHANGED <<creator, datanode, arith, auth, peer, sched_queue, sched, schema, sst_files, region_version, outputs, futs, compacted_inputs, edit, planned,
                   commit_calls>>

CommitFail(t) ==
    /\ pc[t] = "committing"
    /\ compacting' = Drop(outputs[t], compacting)
    /\ result' = [result EXCEPT ![t] = Err([kind |-> "write_edit_and_apply", output |-> 0])]
    /\ pc' = [pc EXCEPT ![t] = "returned"]
    /\ expired_ssts' = [expired_ssts EXCEPT ![t] = <<>>]
    /\ UNCHANGED <<creator, datanode, arith, auth, peer, sched_queue, sched, schema, sst_files, files, region_version, outputs, futs, compacted_inputs, edit,
                   planned, commit_calls>>

(***************************************************************************)
(* The task is dropped without run() having been called.                   *)
(***************************************************************************)
DropUnrun(t) ==
    /\ pc[t] = "created"
    /\ compacting' = Drop(outputs[t], compacting)
    /\ pc' = [pc EXCEPT ![t] = "dropped"]
    /\ outputs' = [outputs EXCEPT ![t] = <<>>]
    /\ expired_ssts' = [expired_ssts EXCEPT ![t] = <<>>]
    /\ UNCHANGED <<creator, datanode, arith, auth, peer, sched_queue, sched, schema, sst_files, files, region_version, futs, compacted_inputs, edit, result,
                   planned, commit_calls>>

(***************************************************************************)
(* The future of run() is dropped at a suspension point (the join of the   *)
(* builds, or write_edit_and_apply): the build futures and the task it     *)
(* owns are dropped.                                                       *)
(***************************************************************************)
Cancel(t) ==
    /\ pc[t] \in {"merging", "committing"}
    /\ compacting' = Drop(outputs[t], compacting)
    /\ futs' = [futs EXCEPT ![t] = <<>>]
    /\ pc' = [pc EXCEPT ![t] = "cancelled"]
    /\ expired_ssts' = [expired_ssts EXCEPT ![t] = <<>>]
    /\ compacted_inputs' = [compacted_inputs EXCEPT ![t] = <<>>]
    /\ UNCHANGED <<creator, datanode, arith, auth, peer, sched_queue, sched, schema, sst_files, files, region_version, outputs, edit, result, planned,
                   commit_calls>>

Next ==
    \/ \E t \in TaskIds : NewTask(t)
    \/ \E t \in TaskIds : RunBegin(t)
    \/ \E t \in TaskIds, k \in BucketIds : BuildReaderOk(t, k)
    \/ \E t \in TaskIds, k \in BucketIds : BuildReaderErr(t, k)
    \/ \E t \in TaskIds, k \in BucketIds : BuildWriteOk(t, k)
    \/ \E t \in TaskIds, k \in BucketIds : BuildWriteErr(t, k)
    \/ \E t \in TaskIds : MergeFailed(t)
    \/ \E t \in TaskIds : MergeSucceeded(t)
    \/ \E t \in TaskIds : CommitOk(t)
    \/ \E t \in TaskIds : CommitFail(t)
    \/ \E t \in TaskIds : DropUnrun(t)
    \/ \E t \in TaskIds : Cancel(t)

Spec == Init /\ [][Next]_vars

\* The steps of run() of task t once it has been constructed: the runtime
\* keeps polling a spawned task, and every await of run() completes.
RunStep(t) ==
    \/ RunBegin(t)
    \/ \E k \in BucketIds : BuildReaderOk(t, k) \/ BuildReaderErr(t, k)
    \/ \E k \in BucketIds : BuildWriteOk(t, k) \/ BuildWriteErr(t, k)
    \/ MergeFailed(t)
    \/ MergeSucceeded(t)
    \/ CommitOk(t)
    \/ CommitFail(t)

(***************************************************************************)
(* The region is altered while compaction rounds run: its metadata         *)
(* version grows.                                                          *)
(***************************************************************************)
AlterRegion ==
    /\ region_version < MaxAlter
    /\ region_version' = region_version + 1
    /\ UNCHANGED <<creator, datanode, arith, auth, peer, files, compacting, pc, outputs, expired_ssts, futs,
                   compacted_inputs, edit, result, planned, commit_calls,
                   sst_files, schema, sched, sched_queue>>

\* Rounds that run to their end, interleaved with alterations.
NextAlter ==
    \/ \E t \in TaskIds : NewTask(t)
    \/ \E t \in TaskIds : RunBegin(t)
    \/ \E t \in TaskIds, k \in BucketIds : BuildReaderOk(t, k)
    \/ \E t \in TaskIds, k \in BucketIds : BuildReaderErr(t, k)
    \/ \E t \in TaskIds, k \in BucketIds : BuildWriteOk(t, k)
    \/ \E t \in TaskIds, k \in BucketIds : BuildWriteErr(t, k)
    \/ \E t \in TaskIds : MergeFailed(t)
    \/ \E t \in TaskIds : MergeSucceeded(t)
    \/ \E t \in TaskIds : CommitOk(t)
    \/ \E t \in TaskIds : CommitFail(t)
    \/ AlterRegion

SpecAlter == Init /\ [][NextAlter]_vars

(***************************************************************************)
(* datanode.rs: the compaction options of the datanode and the scheduler   *)
(* configuration taken from them.                                          *)
(***************************************************************************)
\* impl Default for CompactionConfig
CompactionConfigDefault ==
    [max_inflight_tasks |-> 4,
     max_files_in_level0 |-> 8,
     max_purge_tasks |-> 32]

\* DatanodeOptions, its compaction field as it is by default.
DatanodeOptionsDefault == [compaction |-> CompactionConfigDefault]

\* (mutant) the scheduler's limit taken from the purge limit.
SchedulerConfigFrom_purge_limit(value) ==
    [max_inflight_tasks |-> value.compaction.max_purge_tasks]

\* impl From<&DatanodeOptions> for SchedulerConfig
SchedulerConfigFrom(value) ==
    [max_inflight_tasks |-> value.compaction.max_inflight_tasks]

(***************************************************************************)
(* The compaction scheduler built with that configuration: a request is    *)
(* admitted when fewer than max_inflight_tasks tasks run, otherwise it     *)
(* waits in a queue; when a task finishes, the oldest waiting request is   *)
(* admitted.                                                               *)
(***************************************************************************)
SchedulerConfig == SchedulerConfigFrom(DatanodeOptionsDefault)

Running == {r \in RequestIds : sched[r].status = "running"}

Submit(r) ==
    /\ sched[r].status = "new"
    /\ IF Cardinality(Running) < SchedulerConfig.max_inflight_tasks
       THEN /\ sched' = [sched EXCEPT ![r].status = "running"]
            /\ UNCHANGED sched_queue
       ELSE /\ sched' = [sched EXCEPT ![r] = [status |-> "queued", waited |-> TRUE]]
            /\ sched_queue' = Append(sched_queue, r)
    /\ UNCHANGED <<creator, datanode, arith, auth, peer, files, compacting, region_version, pc, outputs, expired_ssts,
                   futs, compacted_inputs, edit, result, planned, commit_calls,
                   sst_files, schema>>

Finish(r) ==
    /\ sched[r].status = "running"
    /\ IF sched_queue = <<>>
       THEN /\ sched' = [sched EXCEPT ![r].status = "done"]
            /\ UNCHANGED sched_queue
       ELSE /\ sched' = [sched EXCEPT ![r].status = "done",
                                      ![Head(sched_queue)].status = "running"]
            /\ sched_queue' = Tail(sched_queue)
    /\ UNCHANGED <<creator, datanode, arith, auth, peer, files, compacting, region_version, pc, outputs, expired_ssts,
                   futs, compacted_inputs, edit, result, planned, commit_calls,
                   sst_files, schema>>

SchedNext ==
    \/ \E r \in RequestIds : Submit(r)
    \/ \E r \in RequestIds : Finish(r)

\* Every task that runs finishes.
SchedSpec ==
    Init /\ [][SchedNext]_vars /\ \A r \in RequestIds : WF_vars(Finish(r))

(***************************************************************************)
(* meta-srv cluster.rs: MetaPeerClient.                                    *)
(***************************************************************************)
\* Option<ResponseHeader>: None, or a header whose error is None or has a
\* code.
ErrorCodes == {"NotLeader", "NoActiveDatanodes", "Internal"}

NoHeader == [some |-> FALSE]

SomeHeader(e) == [some |-> TRUE, error |-> e]

NoHeaderError == [some |-> FALSE]

HeaderError(code) == [some |-> TRUE, code |-> code]

Headers ==
    {NoHeader, SomeHeader(NoHeaderError)} \cup {SomeHeader(HeaderError(c)) : c \in ErrorCodes}

\* ResponseHeader::is_not_leader: the header has an error whose code is
\* ErrorCode::NotLeader.
is_not_leader(header) == header.error.some /\ header.error.code = "NotLeader"

\* Context { addr }
Context(addr) == [addr |-> addr]

\* (mutant) a response without header passes the check.
check_resp_header_missing_ok(header, ctx) ==
    IF ~header.some THEN Ok
    ELSE IF is_not_leader(header)
         THEN Err([kind |-> "IsNotLeader", node_addr |-> ctx.addr])
         ELSE Ok

\* fn check_resp_header(header: &Option<ResponseHeader>, ctx: Context)
check_resp_header(header, ctx) ==
    IF ~header.some THEN Err([kind |-> "ResponseHeaderNotFound"])
    ELSE IF is_not_leader(header)
         THEN Err([kind |-> "IsNotLeader", node_addr |-> ctx.addr])
         ELSE Ok

\* match_for_io_error(source).is_some(): the tonic status of a failed call
\* is modelled by whether an I/O error caused it.
match_for_io_error(source) == source.io

\* (mutant) every failed call to the leader is retried.
need_retry_any_rpc(error) ==
    IF error.kind = "IsNotLeader" THEN TRUE
    ELSE IF error.kind \in {"Range", "BatchGet"} THEN TRUE
    ELSE FALSE

\* fn need_retry(error: &error::Error)
need_retry(error) ==
    IF error.kind = "IsNotLeader" THEN TRUE
    ELSE IF error.kind \in {"Range", "BatchGet"} THEN match_for_io_error(error.source)
    ELSE FALSE

\* The error kind .context(error::RangeSnafu) / .context(error::BatchGetSnafu)
\* gives to a failed call.
RpcErrorKind(func_name) == IF func_name = "range" THEN "Range" ELSE "BatchGet"

\* Option<ElectionRef>: an election that says whether this node is the
\* leader and which address the leader has.
SomeElection(l, a) == [some |-> TRUE, is_leader |-> l, leader |-> a]

Elections == {NoElection} \cup {SomeElection(l, a) : l \in BOOLEAN, a \in Addrs}

\* Where the kvs of a successful call come from.
InMemory == [local |-> TRUE]

Remote(addr) == [local |-> FALSE, addr |-> addr]

\* (mutant) a node without election is no leader.
is_leader_unwrap_or_false(self) ==
    IF self.election.some THEN self.election.is_leader ELSE FALSE

\* fn is_leader(&self): self.election.map(is_leader).unwrap_or(true)
is_leader(self) ==
    IF self.election.some THEN self.election.is_leader ELSE TRUE

\* (mutant) the loop does not count an attempt that is retried.
AfterAttempt_uncounted(p, r) ==
    IF r.ok THEN [p EXCEPT !.pc = "returned", !.tries = @ + 1, !.result = r, !.last = r]
    ELSE IF need_retry(r.err) THEN [p EXCEPT !.sleeps = @ + 1, !.last = r]
    ELSE [p EXCEPT !.pc = "returned", !.tries = @ + 1, !.result = r, !.last = r]

\* The for loop of range / batch_get after an attempt that returned r:
\* return it, or sleep retry_interval_ms and go on with the next attempt.
AfterAttempt(p, r) ==
    IF r.ok THEN [p EXCEPT !.pc = "returned", !.tries = @ + 1, !.result = r, !.last = r]
    ELSE IF need_retry(r.err)
         THEN [p EXCEPT !.tries = @ + 1, !.sleeps = @ + 1, !.last = r]
    ELSE [p EXCEPT !.pc = "returned", !.tries = @ + 1, !.result = r, !.last = r]

PeerUnchanged ==
    UNCHANGED <<creator, datanode, arith, auth, files, compacting, region_version, pc, outputs, expired_ssts,
                futs, compacted_inputs, edit, result, planned, commit_calls,
                sst_files, schema, sched, sched_queue>>

\* MetaPeerClientBuilder: any election and any retry limit up to the default.
PeerBuild(election, n) ==
    /\ peer.pc = "idle"
    /\ peer' = [PeerIdle EXCEPT !.election = election, !.max_retry_count = n]
    /\ PeerUnchanged

\* build_meta_srv: no election with use_memory_store, an etcd election
\* otherwise; the retry limit is the builder's default.
build_meta_srv(use_memory_store, addr) ==
    /\ peer.pc = "idle"
    /\ peer' = [PeerIdle EXCEPT
                   !.election = IF use_memory_store THEN NoElection
                                ELSE SomeElection(FALSE, addr),
                   !.opts = [some |-> TRUE, use_memory_store |-> use_memory_store]]
    /\ PeerUnchanged

\* The election goes on while the client is used: this node wins or loses
\* the leadership, the leader moves to another address.
ElectionChange(l, a) ==
    /\ peer.pc \in {"idle", "loop"}
    /\ peer.election.some
    /\ peer.election # SomeElection(l, a)
    /\ peer' = [peer EXCEPT !.election = SomeElection(l, a)]
    /\ PeerUnchanged

\* range / batch_get is called: a leader (or a node without election)
\* answers from its in-memory store, any other node enters the loop.
PeerCall(func_name) ==
    /\ peer.pc = "idle"
    /\ peer' = IF is_leader(peer)
               THEN [peer EXCEPT !.pc = "returned", !.func_name = func_name,
                                 !.result = [ok |-> TRUE, from |-> InMemory]]
               ELSE [peer EXCEPT !.pc = "loop", !.func_name = func_name]
    /\ PeerUnchanged

\* One more iteration of `for _ in 0..max_retry_count`.
InLoop == peer.pc = "loop" /\ peer.tries < peer.max_retry_count

\* self.election.as_ref().unwrap(): panics without election, goes on to p
\* with one.
Unwrap(p) == IF peer.election.some THEN p ELSE [peer EXCEPT !.pc = "panicked"]

\* A remote attempt begins.
Attempt == [peer EXCEPT !.check = NoCheck, !.attempts = @ + 1]

\* The request of the attempt goes to the leader the election names now,
\* and is answered by reply ("Ok" or the kind of the error).
Send(p, reply) ==
    [p EXCEPT !.sent = Append(@, [to |-> peer.election.leader,
                                  is_leader |-> peer.election.is_leader,
                                  reply |-> reply])]

\* remote_range / remote_batch_get: election.leader() fails.
RemoteLeaderErr ==
    /\ InLoop
    /\ peer' = Unwrap(AfterAttempt(Attempt, Err([kind |-> "NoLeader"])))
    /\ PeerUnchanged

\* ... channel_manager.get(&leader_addr) fails.
RemoteChannelErr ==
    /\ InLoop
    /\ peer' = Unwrap(AfterAttempt(Attempt, Err([kind |-> "CreateChannel"])))
    /\ PeerUnchanged

\* ... the call to the leader fails, because of an I/O error or not.
RemoteRpcErr(io) ==
    /\ InLoop
    /\ peer' = Unwrap(AfterAttempt(Send(Attempt, RpcErrorKind(peer.func_name)),
                                   Err([kind |-> RpcErrorKind(peer.func_name),
                                        source |-> [io |-> io]])))
    /\ PeerUnchanged

\* (mutant) the leader's address is resolved once, before the first request
\* of the call.
RemoteResponse_first_leader(header) ==
    /\ InLoop
    /\ peer' =
         Unwrap(LET leader_addr == IF peer.sent = <<>> THEN peer.election.leader
                                   ELSE peer.sent[1].to
                    r == check_resp_header(header, Context(leader_addr))
                    p == [Attempt EXCEPT
                             !.check = [header |-> header, addr |-> leader_addr,
                                        result |-> r],
                             !.sent = Append(@, [to |-> leader_addr,
                                                 is_leader |-> peer.election.is_leader,
                                                 reply |-> IF r.ok THEN "Ok"
                                                           ELSE r.err.kind])]
                IN AfterAttempt(p, IF r.ok THEN [ok |-> TRUE, from |-> Remote(leader_addr)]
                                   ELSE r))
    /\ PeerUnchanged

\* ... the leader answers: the header of the response is checked against
\* the address the election gave, and the kvs of the response are returned
\* if it passes.
RemoteResponse(header) ==
    /\ InLoop
    /\ peer' =
         Unwrap(LET leader_addr == peer.election.leader
                    r == check_resp_header(header, Context(leader_addr))
                    p == [Send(Attempt, IF r.ok THEN "Ok" ELSE r.err.kind) EXCEPT
                             !.check = [header |-> header, addr |-> leader_addr,
                                        result |-> r]]
                IN AfterAttempt(p, IF r.ok THEN [ok |-> TRUE, from |-> Remote(leader_addr)]
                                   ELSE r))
    /\ PeerUnchanged

\* The loop is over without a result.
PeerExceeded ==
    /\ peer.pc = "loop" /\ peer.tries >= peer.max_retry_count
    /\ peer' = [peer EXCEPT !.pc = "returned",
                            !.result = Err([kind |-> "ExceededRetryLimit",
                                            func_name |-> peer.func_name,
                                            retry_num |-> peer.max_retry_count])]
    /\ PeerUnchanged

\* A step of a call of range / batch_get that has entered the loop.
PeerStep ==
    \/ RemoteLeaderErr
    \/ RemoteChannelErr
    \/ \E io \in BOOLEAN : RemoteRpcErr(io)
    \/ \E h \in Headers : RemoteResponse(h)
    \/ PeerExceeded

PeerNext ==
    \/ \E e \in Elections, n \in 0..max_retry_count : PeerBuild(e, n)
    \/ \E m \in BOOLEAN, a \in Addrs : build_meta_srv(m, a)
    \/ \E l \in BOOLEAN, a \in Addrs : ElectionChange(l, a)
    \/ \E f \in {"range", "batch_get"} : PeerCall(f)
    \/ RemoteLeaderErr
    \/ RemoteChannelErr
    \/ \E io \in BOOLEAN : RemoteRpcErr(io)
    \/ \E h \in Headers : RemoteResponse(h)
    \/ PeerExceeded

PeerSpec == Init /\ [][PeerNext]_vars

\* Every attempt comes back, and the loop goes on.
PeerFairSpec == PeerSpec /\ WF_vars(PeerStep)

(***************************************************************************)
(* servers/tests/auth.rs: MockUserProvider.                                *)
(***************************************************************************)
Catalogs == {"greptime", "greptime_wrong"}
Schemas == {"public", "public_wrong"}
Usernames == {"greptime", "test_user", "other_user"}

\* DatabaseAuthInfo, and the arguments of authorize.
AuthInfos == [catalog : Catalogs, schema : Schemas, username : Usernames]

\* set_authorization_info(&mut self, info)
set_authorization_info(self, info) ==
    [catalog |-> info.catalog, schema |-> info.schema, username |-> info.username]

\* (mutant) authorize does not look at the user.
authorize_any_user(self, catalog_name, schema_name, username) ==
    IF catalog_name = self.catalog /\ schema_name = self.schema
    THEN Ok
    ELSE Err([kind |-> "AccessDenied", catalog |-> catalog_name, schema |-> schema_name,
              username |-> username])

\* authorize(&self, catalog, schema, user_info), username being
\* user_info.username()
authorize(self, catalog_name, schema_name, username) ==
    IF catalog_name = self.catalog /\ schema_name = self.schema /\ username = self.username
    THEN Ok
    ELSE Err([kind |-> "AccessDenied", catalog |-> catalog_name, schema |-> schema_name,
              username |-> username])

AuthUnchanged ==
    UNCHANGED <<creator, datanode, arith, peer, files, compacting, region_version, pc, outputs, expired_ssts,
                futs, compacted_inputs, edit, result, planned, commit_calls,
                sst_files, schema, sched, sched_queue>>

SetAuthorizationInfo(info) ==
    /\ auth.pc = "idle"
    /\ auth' = [auth EXCEPT !.provider = set_authorization_info(auth.provider, info)]
    /\ AuthUnchanged

\* authorize is called: the provider is borrowed until it returns.
AuthorizeCall(req) ==
    /\ auth.pc = "idle"
    /\ auth' = [auth EXCEPT !.pc = "authorize", !.request = req,
                            !.result = [pending |-> TRUE]]
    /\ AuthUnchanged

AuthorizeReturn ==
    /\ auth.pc = "authorize"
    /\ auth' = [auth EXCEPT !.pc = "idle",
                            !.result = authorize(auth.provider, auth.request.catalog,
                                                 auth.request.schema,
                                                 auth.request.username)]
    /\ AuthUnchanged

AuthNext ==
    \/ \E info \in AuthInfos : SetAuthorizationInfo(info)
    \/ \E req \in AuthInfos : AuthorizeCall(req)
    \/ AuthorizeReturn

AuthSpec == Init /\ [][AuthNext]_vars

(***************************************************************************)
(* CompactionOutput::build, the sum self.bucket_bound + self.bucket on     *)
(* i64, for bucket bounds and positive widths near the ends of i64 and     *)
(* near 0.  A build with overflow checks panics when the sum overflows, a  *)
(* build without them wraps.                                               *)
(***************************************************************************)
BucketBounds ==
    (MinI64..(MinI64 + EdgeSpan)) \cup ((-EdgeSpan)..EdgeSpan)
        \cup ((MaxI64 - EdgeSpan)..MaxI64)

Buckets == (1..EdgeSpan) \cup ((MaxI64 - EdgeSpan)..MaxI64)

ArithUnchanged ==
    UNCHANGED <<creator, datanode, auth, peer, files, compacting, region_version, pc, outputs,
                expired_ssts, futs, compacted_inputs, edit, result, planned,
                commit_calls, sst_files, schema, sched, sched_queue>>

\* An output with the given bucket is about to be built.
ArithOutput(b, w) ==
    /\ arith.pc = "idle"
    /\ arith' = [arith EXCEPT !.pc = "build", !.bucket_bound = b, !.bucket = w]
    /\ ArithUnchanged

\* build computes the arguments of build_sst_reader, overflow checks off.
ArithBuildWrapping ==
    /\ arith.pc = "build"
    /\ arith' = [arith EXCEPT !.pc = "done", !.upper = ReaderRange(arith)[2]]
    /\ ArithUnchanged

\* ... overflow checks on.
ArithBuildChecked ==
    /\ arith.pc = "build"
    /\ arith' = IF AddOverflows(arith.bucket_bound, arith.bucket)
                THEN [arith EXCEPT !.pc = "done", !.panicked = TRUE]
                ELSE [arith EXCEPT !.pc = "done", !.upper = ReaderRange(arith)[2]]
    /\ ArithUnchanged

ArithNext ==
    \/ \E b \in BucketBounds, w \in Buckets : ArithOutput(b, w)
    \/ ArithBuildWrapping
    \/ ArithBuildChecked

ArithSpec == Init /\ [][ArithNext]_vars

(***************************************************************************)
(* datanode.rs: Datanode::start and Datanode::shutdown.  The log has one   *)
(* entry for every call made to the instance or to the services: what was  *)
(* called, in which call of start or shutdown, and whether it succeeded.   *)
(***************************************************************************)
DatanodeUnchanged ==
    UNCHANGED <<creator, arith, auth, peer, files, compacting, region_version, pc, outputs,
                expired_ssts, futs, compacted_inputs, edit, result, planned,
                commit_calls, sst_files, schema, sched, sched_queue>>

\* The instance or the services were called and returned.
Called(d, what, ok) ==
    [d EXCEPT !.log = Append(@, [what |-> what, call |-> d.calls, ok |-> ok])]

\* The error a failed call of `what` returns.
ErrorOf(what) == Err([from |-> what])

\* `?` and the tail expression: the result of a call of `what` ends the
\* method.
Return(d, what, ok) ==
    [d EXCEPT !.pc = "idle", !.result = IF ok THEN Ok ELSE ErrorOf(what)]

\* pub async fn start(&mut self)
DatanodeStart ==
    /\ datanode.pc = "idle" /\ datanode.calls < MaxCalls
    /\ datanode' = [datanode EXCEPT !.pc = "start_instance", !.calls = @ + 1,
                                    !.result = Pending]
    /\ DatanodeUnchanged

\* (mutant) start goes on to the services whatever the instance returned.
StartInstance_ignores_error(ok) ==
    /\ datanode.pc = "start_instance"
    /\ datanode' = [Called(datanode, "instance.start", ok) EXCEPT !.pc = "start_services"]
    /\ DatanodeUnchanged

\* self.start_instance().await?
StartInstance(ok) ==
    /\ datanode.pc = "start_instance"
    /\ datanode' = LET d == Called(datanode, "instance.start", ok)
                   IN IF ok THEN [d EXCEPT !.pc = "start_services"]
                      ELSE Return(d, "instance.start", ok)
    /\ DatanodeUnchanged

\* self.start_services().await
StartServices(ok) ==
    /\ datanode.pc = "start_services"
    /\ datanode' = Return(Called(datanode, "services.start", ok), "services.start", ok)
    /\ DatanodeUnchanged

\* pub async fn shutdown(&self)
DatanodeShutdown ==
    /\ datanode.pc = "idle" /\ datanode.calls < MaxCalls
    /\ datanode' = [datanode EXCEPT !.pc = "shutdown_services", !.calls = @ + 1,
                                    !.result = Pending]
    /\ DatanodeUnchanged

\* self.shutdown_services().await?
ShutdownServices(ok) ==
    /\ datanode.pc = "shutdown_services"
    /\ datanode' = LET d == Called(datanode, "services.shutdown", ok)
                   IN IF ok THEN [d EXCEPT !.pc = "shutdown_instance"]
                      ELSE Return(d, "services.shutdown", ok)
    /\ DatanodeUnchanged

\* self.shutdown_instance().await
ShutdownInstance(ok) ==
    /\ datanode.pc = "shutdown_instance"
    /\ datanode' = Return(Called(datanode, "instance.shutdown", ok),
                          "instance.shutdown", ok)
    /\ DatanodeUnchanged

DatanodeNext ==
    \/ DatanodeStart
    \/ \E ok \in BOOLEAN : StartInstance(ok)
    \/ \E ok \in BOOLEAN : StartServices(ok)
    \/ DatanodeShutdown
    \/ \E ok \in BOOLEAN : ShutdownServices(ok)
    \/ \E ok \in BOOLEAN : ShutdownInstance(ok)

DatanodeSpec == Init /\ [][DatanodeNext]_vars

(***************************************************************************)
(* common/function-macro lib.rs: the AggrFuncTypeStore implementation the  *)
(* derive macro generates for a creator struct.                            *)
(***************************************************************************)
ConcreteDataTypes == {"Int32", "Float64", "String"}

\* Vec<ConcreteDataType>
TypeLists == UNION {[1..n -> ConcreteDataTypes] : n \in 0..MaxTypes}

SomeTypes(types) == [some |-> TRUE, types |-> types]

InvalidInputState == Err([kind |-> "InvalidInputState"])

\* fn input_types(&self)
input_types(self) ==
    IF ~self.input_types.some THEN InvalidInputState
    ELSE [ok |-> TRUE, value |-> self.input_types.types]

\* The ensure! on the lengths and the loop of ensure! over the zipped lists.
EnsureSame(old, new) ==
    IF Len(old) # Len(new) THEN InvalidInputState
    ELSE IF \E i \in 1..Len(old) : old[i] # new[i] THEN InvalidInputState
    ELSE Ok

\* (mutant) a rejected list is not stored.
set_input_types_checks_first(self, types) ==
    LET old == self.input_types
        r == IF old.some THEN EnsureSame(old.types, types) ELSE Ok
    IN [self EXCEPT !.input_types = IF r.ok THEN SomeTypes(types) ELSE old,
                    !.result = r]

\* fn set_input_types(&self, input_types): swap, then compare with the old
\* value.
set_input_types(self, types) ==
    LET old == self.input_types
    IN [self EXCEPT !.input_types = SomeTypes(types),
                    !.result = IF old.some THEN EnsureSame(old.types, types) ELSE Ok]

CreatorUnchanged ==
    UNCHANGED <<datanode, arith, auth, peer, files, compacting, region_version, pc,
                outputs, expired_ssts, futs, compacted_inputs, edit, result, planned,
                commit_calls, sst_files, schema, sched, sched_queue>>

\* input_types is called.
InputTypes ==
    /\ creator' = [creator EXCEPT !.call = [op |-> "input_types",
                                            old |-> creator.input_types],
                                  !.result = input_types(creator)]
    /\ CreatorUnchanged

\* set_input_types is called.
SetInputTypes(types) ==
    /\ creator' = [set_input_types(creator, types) EXCEPT
                      !.call = [op |-> "set_input_types", arg |-> types,
                                old |-> creator.input_types]]
    /\ CreatorUnchanged

StoreNext ==
    \/ InputTypes
    \/ \E types \in TypeLists : SetInputTypes(types)

StoreSpec == Init /\ [][StoreNext]_vars

FairSpec == Spec /\ \A t \in TaskIds : WF_vars(RunStep(t))

(***************************************************************************)
(* Properties                                                              *)
(***************************************************************************)
\* Every file id a handle can exist for.
AllFileIds == 1..(NumFiles + NumTasks * NumBuckets)

\* The file ids of the inputs task t was constructed with.
PlannedInputIds(t) == InputIds(planned[t].outputs)

\* The FileMetas of the inputs task t was constructed with.
PlannedInputs(t) ==
    UNION {Range(planned[t].outputs[k].inputs) : k \in 1..Len(planned[t].outputs)}

\* Task t is between the start of run() and its return.
MidExecution(t) == pc[t] \in {"merging", "committing"}

NoDuplicates(s) == \A i, j \in 1..Len(s) : i # j => s[i] # s[j]

IsBuildError(r) == ~r.ok /\ r.err.kind \in {"build_sst_reader", "write_sst"}

\* C1: in the step in which run() of a task returns (with Ok, with a merge
\* error or with a commit error) and the task is destroyed, every input the
\* task was constructed with ends with its compacting flag idle.
C1_IdleAfterRun ==
    [][\A t \in TaskIds :
          (pc[t] # "returned" /\ pc'[t] = "returned")
              => \A f \in PlannedInputIds(t) : ~compacting'[f]]_vars

\* C2: once the build of an output of a round has failed, the round never
\* reaches the commit: write_edit_and_apply is not called, no edit is built,
\* no step of the task changes the live file set, and run() returns an error.
C2_FailedMergeIsNoOp ==
    [][\A t \in TaskIds :
          (pc[t] = "merging" /\ FailedBuilds(futs[t]) # {})
              => /\ pc'[t] \in {"merging", "returned", "cancelled"}
                 /\ commit_calls'[t] = 0
                 /\ edit'[t] = NoEdit
                 /\ (pc'[t] # pc[t] \/ futs'[t] # futs[t]) => files' = files
                 /\ pc'[t] = "returned" => IsBuildError(result'[t])]_vars

\* C2 witness: a round of two outputs has returned the error of a failed
\* build, without a commit, over the live file set the region started with.
C2_Witness ==
    \E t \in TaskIds :
        /\ pc[t] = "returned"
        /\ Len(planned[t].outputs) = 2
        /\ IsBuildError(result[t])
        /\ commit_calls[t] = 0
        /\ files = {InitialFile(i) : i \in 1..NumFiles}

\* C3: the files_to_remove of the edit a round commits lists every input of
\* every output and every expired file exactly once, and nothing else.
C3_RemovedIsDedupUnion ==
    \A t \in TaskIds :
        edit[t] # NoEdit
            => /\ NoDuplicates(edit[t].files_to_remove)
               /\ Range(edit[t].files_to_remove)
                    = PlannedInputs(t) \cup Range(planned[t].expired_ssts)

\* C3 witness: a round has succeeded in which one file is an input of two
\* outputs and one file is both an input and an expired file.
C3_Witness ==
    \E t \in TaskIds :
        /\ pc[t] = "returned" /\ result[t] = Ok
        /\ Len(planned[t].outputs) = 2
        /\ Range(planned[t].outputs[1].inputs) \cap Range(planned[t].outputs[2].inputs) # {}
        /\ Range(planned[t].expired_ssts) \cap PlannedInputs(t) # {}
        /\ Len(edit[t].files_to_remove) = Cardinality(PlannedInputs(t))

\* C4: no file id is both among the files added and among the files removed
\* by the edit of a round.
C4_AddedRemovedDisjoint ==
    \A t \in TaskIds :
        edit[t] # NoEdit
            => {m.file_id : m \in Range(edit[t].files_to_add)}
                 \cap {m.file_id : m \in Range(edit[t].files_to_remove)} = {}

\* C4 witness: a round has succeeded whose edit adds a file and removes files.
C4_Witness ==
    \E t \in TaskIds :
        /\ pc[t] = "returned" /\ result[t] = Ok
        /\ edit[t].files_to_add # <<>>
        /\ edit[t].files_to_remove # <<>>
        /\ Range(edit[t].files_to_add) \subseteq files

\* C5: no two tasks are both between the start and the return of run()
\* with a file that is an input of both.
C5_NoSharedInputMidExecution ==
    \A t, u \in TaskIds :
        (t # u /\ MidExecution(t) /\ MidExecution(u))
            => PlannedInputIds(t) \cap PlannedInputIds(u) = {}

\* C6: write_edit_and_apply is called only in a step taken when the build
\* of every output of the round has completed with success, and no build of
\* the round makes a step once it has been called.
C6_CommitAfterAllBuilds ==
    [][\A t \in TaskIds :
          /\ commit_calls'[t] # commit_calls[t]
                => /\ Len(futs[t]) = Len(planned[t].outputs)
                   /\ \A k \in 1..Len(futs[t]) : futs[t][k].stage = "ok"
          /\ (futs'[t] # futs[t] /\ futs'[t] # <<>>) => commit_calls[t] = 0]_vars

\* C6 witness: the commit of a round of two outputs has been called.
C6_Witness ==
    \E t \in TaskIds :
        /\ pc[t] = "committing"
        /\ Len(planned[t].outputs) = 2
        /\ commit_calls[t] = 1

\* C7: in the step in which the future of run() is dropped at a suspension
\* point, every input the task was constructed with ends idle.
C7_IdleAfterCancel ==
    [][\A t \in TaskIds :
          (MidExecution(t) /\ pc'[t] = "cancelled")
              => \A f \in PlannedInputIds(t) : ~compacting'[f]]_vars

\* C8: in the step in which a task is dropped without run() having been
\* called, every input of every output of the task ends idle.
C8_IdleAfterDropUnrun ==
    [][\A t \in TaskIds :
          (pc[t] = "created" /\ pc'[t] = "dropped")
              => \A f \in PlannedInputIds(t) : ~compacting'[f]]_vars

\* C8 witness: a task was dropped without running while another task that
\* shares an input with it had marked that input, and the input is idle.
C8_Witness ==
    \E t, u \in TaskIds :
        /\ pc[t] = "dropped"
        /\ pc[u] = "merging"
        /\ \E f \in PlannedInputIds(t) \cap PlannedInputIds(u) : ~compacting[f]
        /\ \A f \in PlannedInputIds(t) : ~compacting[f]

\* C9: a file whose flag is compacting eventually has its flag idle again.
C9_CompactingLeadsToIdle ==
    \A f \in AllFileIds :
        (f \in DOMAIN compacting /\ compacting[f])
            ~> (f \in DOMAIN compacting /\ ~compacting[f])

\* C10: a flag goes from idle to compacting only in the step in which a
\* task with the file among its inputs begins run(); it goes from compacting
\* to idle only in the step in which a task that had marked it returns from
\* run() or is destroyed; and the handle of a new file starts idle.
C10_OnlyTwoTransitions ==
    [][\A f \in AllFileIds :
          /\ (f \in DOMAIN compacting /\ ~compacting[f] /\ compacting'[f])
                => \E t \in TaskIds : /\ pc[t] = "created" /\ pc'[t] = "merging"
                                      /\ f \in PlannedInputIds(t)
          /\ (f \in DOMAIN compacting /\ compacting[f] /\ ~compacting'[f])
                => \E t \in TaskIds : /\ MidExecution(t)
                                      /\ pc'[t] \in {"returned", "cancelled"}
                                      /\ f \in PlannedInputIds(t)
          /\ (f \notin DOMAIN compacting /\ f \in DOMAIN compacting')
                => ~compacting'[f]]_vars

\* The file ids the builds of task t allocate for its outputs.
OutputIds(t) == {FileIdRandom(t, k) : k \in 1..Len(planned[t].outputs)}

\* The file ids of the live files.
LiveIds == {m.file_id : m \in files}

\* C11: when a round has ended in failure, every output SST it wrote to the
\* store is in the manifest (or is not in the store any more).
C11_NoOrphanOutputAfterFailure ==
    \A t \in TaskIds :
        (pc[t] = "returned" /\ ~result[t].ok)
            => \A f \in OutputIds(t) : f \in sst_files => f \in LiveIds

\* C12: in the step in which write_edit_and_apply fails, run() returns that
\* error, the live file set is left as it was (nothing added, no input
\* removed), and every input is idle, so that the picker can select it for
\* a later round.
C12_CommitFailureLeavesInputsUsable ==
    [][\A t \in TaskIds :
          (pc[t] = "committing" /\ pc'[t] = "returned" /\ ~result'[t].ok)
              => /\ result'[t].err.kind = "write_edit_and_apply"
                 /\ files' = files
                 /\ \A f \in PlannedInputIds(t) : ~compacting'[f]]_vars

\* C13: the edit of a round carries the version the round's merge was
\* performed against (the version of the schema the task captured), and a
\* round is applied only if the region still has that version.
C13_StaleEditNeverApplied ==
    [][\A t \in TaskIds :
          /\ edit'[t] # NoEdit => edit'[t].region_version = schema[t]
          /\ (pc[t] = "committing" /\ pc'[t] = "returned" /\ result'[t] = Ok)
                => schema[t] = region_version]_vars

PlannedExpiredIds(t) == {m.file_id : m \in Range(planned[t].expired_ssts)}

\* The files the region has after a step and did not have before it.
NewFiles == files' \ files

\* A file holds the rows merged for output o: it has o's level and its time
\* range covers every row of o's inputs that lies in o's bucket.
CoversOutput(m, o) ==
    /\ m.level = o.output_level
    /\ \A ts \in SstReaderRows(o.inputs, ReaderRange(o)) :
          m.time_range[1] <= ts /\ ts < m.time_range[2]

\* The live set after a successful round of t: the previous one minus the
\* inputs and the expired files, plus exactly one new file per output.
RoundReplacesInputs(t) ==
    LET outs == planned[t].outputs IN
    /\ files \ files' =
          {m \in files : m.file_id \in PlannedInputIds(t) \cup PlannedExpiredIds(t)}
    /\ Cardinality(NewFiles) = Len(outs)
    /\ \E g \in [1..Len(outs) -> NewFiles] :
          /\ \A j, k \in 1..Len(outs) : g[j] = g[k] => j = k
          /\ \A k \in 1..Len(outs) : CoversOutput(g[k], outs[k])

\* C15: a successful round replaces its inputs and expired files by exactly
\* one new file per output, at the output's level and covering the rows
\* merged, and leaves the inputs' compacting flags idle.
C15_SuccessfulRoundEffect ==
    [][\A t \in TaskIds :
          (pc[t] = "committing" /\ pc'[t] = "returned" /\ result'[t] = Ok)
              => /\ RoundReplacesInputs(t)
                 /\ \A f \in PlannedInputIds(t) : ~compacting'[f]]_vars

\* C16: the join is fail-fast: once the build of one output of a round has
\* failed, no other build of the round takes a step (no reader is opened,
\* no file is written); the round only ends.
C16_JoinIsFailFast ==
    [][\A t \in TaskIds :
          (pc[t] = "merging" /\ FailedBuilds(futs[t]) # {})
              => \/ pc'[t] # "merging"
                 \/ /\ futs'[t] = futs[t]
                    /\ \A f \in OutputIds(t) : f \in sst_files' => f \in sst_files]_vars

Ended(t) == pc[t] \in {"returned", "cancelled", "dropped"}

\* Progress of one build: build_sst_reader pending, write_sst pending, over.
StageRank(stage) == IF stage = "reader" THEN 0 ELSE IF stage = "write" THEN 1 ELSE 2

\* C17: a task runs at most once and retries nothing: run() starts from a
\* constructed task only and invokes one build per planned output; a build
\* only moves forward and stays as it ended; write_edit_and_apply is called
\* at most once, after the builds; a task that has ended does nothing more.
C17_NoRetryInsideTask ==
    [][\A t \in TaskIds :
          /\ commit_calls'[t] <= 1
          /\ commit_calls'[t] # commit_calls[t]
                => pc[t] = "merging" /\ pc'[t] = "committing"
          /\ (pc'[t] = "merging" /\ pc[t] # "merging")
                => /\ pc[t] = "created"
                   /\ Len(futs'[t]) = Len(planned[t].outputs)
                   /\ \A k \in 1..Len(futs'[t]) :
                         /\ futs'[t][k].output = planned[t].outputs[k]
                         /\ futs'[t][k].stage = "reader"
          /\ (pc[t] = "merging" /\ pc'[t] = "merging")
                => /\ Len(futs'[t]) = Len(futs[t])
                   /\ \A k \in 1..Len(futs[t]) :
                         /\ StageRank(futs'[t][k].stage) >= StageRank(futs[t][k].stage)
                         /\ futs[t][k].stage \in {"ok", "err"} => futs'[t][k] = futs[t][k]
          /\ pc[t] = "committing" => pc'[t] \in {"committing", "returned", "cancelled"}
          /\ Ended(t)
                => /\ pc'[t] = pc[t]
                   /\ futs'[t] = <<>>
                   /\ result'[t] = result[t]]_vars

\* C17 witness: a round whose commit failed has ended with one call of
\* write_edit_and_apply, and a round whose build failed with none.
C17_Witness ==
    /\ \E t \in TaskIds :
          /\ pc[t] = "returned" /\ ~result[t].ok
          /\ result[t].err.kind = "write_edit_and_apply"
          /\ commit_calls[t] = 1
    /\ \E t \in TaskIds :
          /\ pc[t] = "returned" /\ ~result[t].ok
          /\ IsBuildError(result[t])
          /\ commit_calls[t] = 0

FileIdsOf(metas) == {m.file_id : m \in Range(metas)}

Succeeds(t) == pc[t] = "committing" /\ pc'[t] = "returned" /\ result'[t] = Ok

\* C18: the outputs of a round become visible all together, through the one
\* edit of the round: while the round has not returned Ok none of its
\* output files is live, and the step in which it returns Ok applies one
\* edit that adds the file of every output and removes every input and
\* expired file.
C18_OneEditForWholeRound ==
    [][\A t \in TaskIds :
          /\ ~(pc'[t] = "returned" /\ result'[t] = Ok)
                => \A f \in OutputIds(t) : f \notin {m.file_id : m \in files'}
          /\ Succeeds(t)
                => /\ commit_calls[t] = 1
                   /\ FileIdsOf(edit[t].files_to_add) = OutputIds(t)
                   /\ FileIdsOf(edit[t].files_to_remove)
                         = PlannedInputIds(t) \cup PlannedExpiredIds(t)
                   /\ \A f \in OutputIds(t) : f \in {m.file_id : m \in files'}
                   /\ \A f \in FileIdsOf(edit[t].files_to_remove) :
                         f \notin {m.file_id : m \in files'}]_vars

\* C18 witness: a round of two outputs has returned Ok and the files of
\* both outputs are live.
C18_Witness ==
    \E t \in TaskIds :
        /\ pc[t] = "returned" /\ result[t] = Ok
        /\ Len(planned[t].outputs) = 2
        /\ OutputIds(t) \subseteq LiveIds

\* C19: the live file set changes only in a step that applies the edit of a
\* round: what leaves it is in the edit's files_to_remove, what enters it is
\* in the edit's files_to_add, and every live file that is neither an input
\* nor an expired file of the round stays.
C19_LiveSetChangesOnlyByEdit ==
    [][files' # files
          => \E t \in TaskIds :
                /\ Succeeds(t)
                /\ files \ files' \subseteq Range(edit[t].files_to_remove)
                /\ files' \ files \subseteq Range(edit[t].files_to_add)
                /\ \A m \in files :
                      m.file_id \notin PlannedInputIds(t) \cup PlannedExpiredIds(t)
                          => m \in files']_vars

\* C19 witness: a round has returned Ok, one of its inputs has left the
\* live set and a file the round did not name is still live.
C19_Witness ==
    \E t \in TaskIds :
        /\ pc[t] = "returned" /\ result[t] = Ok
        /\ \E m \in Range(edit[t].files_to_remove) : m \notin files
        /\ \E i \in 1..NumFiles :
              /\ InitialFile(i) \in files
              /\ i \notin PlannedInputIds(t) \cup PlannedExpiredIds(t)

\* C20: never more than max_inflight_tasks of the datanode's compaction
\* options (4 by default) requests run; a submitted request is running,
\* done or waiting in the queue, and a waiting request runs later.
C20_AtMostMaxInflightTasksRun ==
    /\ [](Cardinality(Running) <= DatanodeOptionsDefault.compaction.max_inflight_tasks)
    /\ [](\A r \in RequestIds :
             /\ sched[r].status \in {"new", "queued", "running", "done"}
             /\ sched[r].status = "queued" <=> r \in Range(sched_queue))
    /\ \A r \in RequestIds :
          (sched[r].status = "queued") ~> (sched[r].status = "running")

\* C20 witness: as many requests run as the limit allows, one of them
\* waited in the queue before, and another one is waiting.
C20_Witness ==
    /\ Cardinality(Running) = DatanodeOptionsDefault.compaction.max_inflight_tasks
    /\ \E r \in Running : sched[r].waited
    /\ \E r \in RequestIds : sched[r].status = "queued"

\* C21: check_resp_header returns ResponseHeaderNotFound for a response
\* without header, IsNotLeader with the contacted address for a header that
\* reports a not-leader error, and Ok for every other header.
C21_CheckRespHeader ==
    peer.check # NoCheck
        => LET h == peer.check.header
               r == peer.check.result
           IN /\ ~h.some => r = Err([kind |-> "ResponseHeaderNotFound"])
              /\ (h.some /\ h.error.some /\ h.error.code = "NotLeader")
                    => r = Err([kind |-> "IsNotLeader", node_addr |-> peer.check.addr])
              /\ (h.some /\ ~(h.error.some /\ h.error.code = "NotLeader")) => r = Ok

\* C21 witness: a response without header was checked in a later attempt of
\* a call, which returned ResponseHeaderNotFound.
C21_Witness ==
    /\ peer.check # NoCheck
    /\ ~peer.check.header.some
    /\ peer.tries > 1
    /\ peer.pc = "returned"
    /\ peer.result = Err([kind |-> "ResponseHeaderNotFound"])

\* C22: authorize returns Ok exactly when the requested catalog, the
\* requested schema and the user's name equal the provider's catalog, schema
\* and username as last set; otherwise it returns AccessDenied.
C22_AuthorizeIffAllMatch ==
    [][(auth.pc = "authorize" /\ auth'.pc = "idle")
          => LET req == auth.request
                 r == auth'.result
             IN /\ r = Ok <=> /\ req.catalog = auth.provider.catalog
                              /\ req.schema = auth.provider.schema
                              /\ req.username = auth.provider.username
                /\ r # Ok => ~r.ok /\ r.err.kind = "AccessDenied"]_vars

\* C22 witness: with an authorization info other than the default one set,
\* a request that matches it was authorized.
C22_Witness ==
    /\ auth.pc = "idle"
    /\ auth.provider # MockUserProviderDefault
    /\ auth.request = auth.provider
    /\ auth.result = Ok

\* C23: in the step in which run() begins, before any build exists, every
\* input of every output of the task ends compacting, whether it was idle or
\* already compacting; and a build takes steps only after that step.
C23_InputsMarkedBeforeBuilds ==
    [][\A t \in TaskIds :
          /\ (pc[t] = "created" /\ pc'[t] = "merging")
                => /\ futs[t] = <<>>
                   /\ \A f \in PlannedInputIds(t) : compacting'[f]
          /\ (futs'[t] # futs[t] /\ futs[t] # <<>>) => pc[t] = "merging"
          /\ futs'[t] # <<>> => pc'[t] = "merging"]_vars

\* C23 witness: two tasks that share an input are both running their
\* builds: the second one marked a handle that was already compacting.
C23_Witness ==
    \E t, u \in TaskIds :
        /\ t # u
        /\ pc[t] = "merging" /\ pc[u] = "merging"
        /\ \E k \in 1..Len(futs[u]) : futs[u][k].stage # "reader"
        /\ \E f \in PlannedInputIds(t) \cap PlannedInputIds(u) : compacting[f]

\* C24: in the step in which the join of the builds of a round returns, the
\* outcome depends on the results of the builds only, not on the order in
\* which they completed: the round fails exactly when some build failed; if
\* it goes on, the edit removes the inputs and the expired files and adds
\* one file per output, at the output's level.
C24_OutcomeIndependentOfBuildOrder ==
    [][\A t \in TaskIds :
          (pc[t] = "merging" /\ pc'[t] \in {"committing", "returned"})
              => LET fs == futs[t]
                     outs == planned[t].outputs
                 IN /\ pc'[t] = "returned" <=> \E k \in 1..Len(fs) : fs[k].stage = "err"
                    /\ pc'[t] = "returned" => ~result'[t].ok /\ edit'[t] = NoEdit
                    /\ pc'[t] = "committing"
                          => /\ FileIdsOf(edit'[t].files_to_remove)
                                   = PlannedInputIds(t) \cup PlannedExpiredIds(t)
                             /\ Len(edit'[t].files_to_add) = Len(outs)
                             /\ \A k \in 1..Len(outs) :
                                   \E m \in Range(edit'[t].files_to_add) :
                                       /\ m.file_id = FileIdRandom(t, k)
                                       /\ m.level = outs[k].output_level]_vars

\* C24 witness: the builds of a round of two outputs have all completed,
\* the build of the second output before the build of the first.
C24_Witness ==
    \E t \in TaskIds :
        /\ pc[t] = "merging"
        /\ Len(futs[t]) = 2
        /\ JoinReady(futs[t])
        /\ futs[t][2].order = 1 /\ futs[t][2].stage = "ok"
        /\ futs[t][1].order = 2 /\ futs[t][1].stage = "err"

\* The builds that have allocated a file id.
Allocated == {tk \in TaskIds \X BucketIds :
                 /\ tk[2] <= Len(futs[tk[1]])
                 /\ futs[tk[1]][tk[2]].stage \in {"write", "ok"}}

\* C25: the FileMeta of a build that succeeded has the region's id, the
\* file id allocated for the build, which no input of the round and no
\* other build has, the level of the output, and the time range and the
\* file size the write reported.
C25_FileMetaOfBuild ==
    \A tk \in Allocated :
        LET t == tk[1]
            f == futs[t][tk[2]]
        IN /\ \A m \in PlannedInputs(t) : m.file_id # f.file_id
           /\ \A uj \in Allocated : uj # tk => futs[uj[1]][uj[2]].file_id # f.file_id
           /\ f.stage = "ok"
                 => /\ f.meta.region_id = RegionId
                    /\ f.meta.file_id = f.file_id
                    /\ f.meta.level = f.output.output_level
                    /\ f.meta.time_range = f.sst_info.time_range
                    /\ f.meta.file_size = f.sst_info.file_size

\* C25 witness: two tasks have each a build that succeeded, one over two
\* inputs, the other over an input whose rows do not fill the bucket.
C25_Witness ==
    \E t, u \in TaskIds : \E j \in 1..Len(futs[u]) :
        /\ t # u
        /\ <<t, 1>> \in Allocated /\ futs[t][1].stage = "ok"
        /\ <<u, j>> \in Allocated /\ futs[u][j].stage = "ok"
        /\ Len(futs[t][1].output.inputs) = 2
        /\ futs[t][1].meta.file_size = 2
        /\ futs[u][j].meta.time_range
              # <<futs[u][j].output.bucket_bound,
                  futs[u][j].output.bucket_bound + futs[u][j].output.bucket>>

\* C26: a build whose reader could not be opened has allocated no file id,
\* written nothing and produced no FileMeta, and its result is the error of
\* build_sst_reader; a build whose write failed has produced no FileMeta and
\* its result is the error of write_sst.
C26_BuildErrors ==
    \A t \in TaskIds : \A k \in 1..Len(futs[t]) :
        LET f == futs[t][k] IN
        f.stage = "err"
            => /\ f.meta = NoMeta /\ f.sst_info = NoMeta
               /\ FileIdRandom(t, k) \notin sst_files
               /\ \/ /\ f.err = [kind |-> "build_sst_reader", output |-> k]
                     /\ f.file_id = 0
                     /\ f.rows = {}
                  \/ /\ f.err = [kind |-> "write_sst", output |-> k]
                     /\ f.file_id = FileIdRandom(t, k)

\* C26 witness: in a round of two outputs the reader of one build could not
\* be opened and the write of the other failed.
C26_Witness ==
    \E t \in TaskIds :
        /\ Len(futs[t]) = 2
        /\ futs[t][1].stage = "err" /\ futs[t][1].err.kind = "build_sst_reader"
        /\ futs[t][2].stage = "err" /\ futs[t][2].err.kind = "write_sst"

\* C27: when run() returns an error it is the error of the phase that
\* failed, as it was raised: after the join, the error of the first build in
\* output order among those that failed, whichever completed first; after
\* write_edit_and_apply, its error.
C27_ErrorsSurfaceUnchanged ==
    [][\A t \in TaskIds :
          (pc'[t] = "returned" /\ pc[t] # "returned" /\ ~result'[t].ok)
              => \/ /\ pc[t] = "merging"
                    /\ \E k \in 1..Len(futs[t]) :
                          /\ futs[t][k].stage = "err"
                          /\ \A j \in 1..(k - 1) : futs[t][j].stage = "ok"
                          /\ result'[t].err = futs[t][k].err
                          /\ result'[t].err.output = k
                          /\ result'[t].err.kind \in {"build_sst_reader", "write_sst"}
                 \/ /\ pc[t] = "committing"
                    /\ result'[t].err = [kind |-> "write_edit_and_apply", output |-> 0]]_vars

\* C27 witness: both builds of a round have failed, the build of the second
\* output first, and the join is over.
C27_Witness ==
    \E t \in TaskIds :
        /\ pc[t] = "merging"
        /\ Len(futs[t]) = 2
        /\ futs[t][2].stage = "err" /\ futs[t][2].order = 1
        /\ futs[t][1].stage = "err" /\ futs[t][1].order = 2
        /\ Collect(futs[t]) = Err(futs[t][1].err)

\* C28: a round without outputs goes from the start of run() to one call of
\* write_edit_and_apply, with an edit that adds nothing and removes exactly
\* the expired files of the task (nothing, if it has none).
C28_RoundWithoutOutputs ==
    [][\A t \in TaskIds :
          (planned[t].outputs = <<>> /\ pc[t] = "merging" /\ pc'[t] # "merging")
              => \/ pc'[t] = "cancelled"
                 \/ /\ pc'[t] = "committing"
                    /\ commit_calls'[t] = 1
                    /\ edit'[t].files_to_add = <<>>
                    /\ Range(edit'[t].files_to_remove) = Range(planned[t].expired_ssts)
                    /\ Len(edit'[t].files_to_remove) = Len(planned[t].expired_ssts)]_vars

\* C28 witness: a round with an expired file and no output has returned Ok
\* and the file is no longer live; a round with neither outputs nor expired
\* files has called write_edit_and_apply with an empty edit.
C28_Witness ==
    \E t, u \in TaskIds :
        /\ planned[t].outputs = <<>> /\ planned[t].expired_ssts # <<>>
        /\ pc[t] = "returned" /\ result[t] = Ok
        /\ Range(planned[t].expired_ssts) \cap files = {}
        /\ planned[u].outputs = <<>> /\ planned[u].expired_ssts = <<>>
        /\ commit_calls[u] = 1
        /\ edit[u].files_to_add = <<>> /\ edit[u].files_to_remove = <<>>

\* C29: an edit is built only in the step in which the join of the builds
\* has returned Ok; it has no flushed sequence and carries the version the
\* region's metadata has in that step.
C29_EditVersionAndFlushedSequence ==
    [][\A t \in TaskIds :
          edit'[t] # edit[t]
              => /\ pc[t] = "merging" /\ JoinReady(futs[t])
                 /\ \A k \in 1..Len(futs[t]) : futs[t][k].stage = "ok"
                 /\ edit'[t].flushed_sequence = "None"
                 /\ edit'[t].region_version = region_version
                 /\ region_version' = region_version]_vars

\* C29 witness: the region was altered after a task was constructed and
\* before its builds ended; the edit carries the version after the
\* alteration and no flushed sequence.
C29_Witness ==
    \E t \in TaskIds :
        /\ edit[t] # NoEdit
        /\ planned[t].outputs # <<>>
        /\ schema[t] = 0
        /\ edit[t].region_version = MaxAlter
        /\ edit[t].flushed_sequence = "None"

\* C30: the drop of a task that was never run leaves compacting every
\* handle that a task which is mid-execution has among its inputs.
C30_DropClearsOwnMarksOnly ==
    [][\A t, u \in TaskIds :
          (t # u /\ pc[t] = "created" /\ pc'[t] = "dropped" /\ MidExecution(u))
              => \A f \in PlannedInputIds(t) \cap PlannedInputIds(u) :
                    compacting[f] => compacting'[f]]_vars

\* The files task t was given as expired only, not as an input of an output.
ExpiredOnlyIds(t) == PlannedExpiredIds(t) \ PlannedInputIds(t)

\* C31: no step of a task (the start of run(), a build, the commit, the
\* return, the drop of the task) changes the compacting flag of a file the
\* task has only among its expired files.
C31_ExpiredFilesNeverMarked ==
    [][\A t \in TaskIds :
          (pc[t] # "none" /\ (pc'[t] # pc[t] \/ futs'[t] # futs[t]))
              => \A f \in ExpiredOnlyIds(t) : compacting'[f] = compacting[f]]_vars

\* C31 witness: a round has returned Ok that had inputs and a file that was
\* expired only; that file has left the live set and its flag is idle.
C31_Witness ==
    \E t \in TaskIds :
        /\ pc[t] = "returned" /\ result[t] = Ok
        /\ PlannedInputIds(t) # {}
        /\ \E f \in ExpiredOnlyIds(t) : f \notin LiveIds /\ ~compacting[f]

\* C32: the upper bound of the reader's interval that build computes,
\* bucket_bound + bucket, is computed without overflow and is greater than
\* bucket_bound.
C32_UpperBoundAboveLowerBound ==
    arith.pc = "done" => ~arith.panicked /\ arith.upper > arith.bucket_bound

\* What the loop of range / batch_get retries: IsNotLeader, and a Range or
\* BatchGet error that an I/O error caused.
Retriable(err) ==
    \/ err.kind = "IsNotLeader"
    \/ err.kind \in {"Range", "BatchGet"} /\ err.source.io

\* A remote attempt is made in this step.
AttemptMade == peer'.attempts = peer.attempts + 1

\* C33: on a non-leader node range and batch_get end after at most
\* max_retry_count remote attempts: the first successful attempt ends the
\* call with its result, and when max_retry_count attempts failed with
\* retriable errors the call ends with ExceededRetryLimit and retry_num =
\* max_retry_count (with max_retry_count = 0, without any attempt).
C33_RetryLoopTerminates ==
    /\ [](peer.attempts <= peer.max_retry_count)
    /\ [][AttemptMade /\ peer'.last.ok
             => peer'.pc = "returned" /\ peer'.result = peer'.last]_vars
    /\ [][(peer.pc = "loop" /\ peer'.pc = "returned" /\ ~AttemptMade)
             => /\ peer.attempts = peer.max_retry_count
                /\ peer.sleeps = peer.max_retry_count
                /\ peer'.result = Err([kind |-> "ExceededRetryLimit",
                                       func_name |-> peer.func_name,
                                       retry_num |-> peer.max_retry_count])]_vars
    /\ [](peer.pc = "returned" /\ ~peer.result.ok
              /\ peer.result.err.kind = "ExceededRetryLimit"
             => peer.attempts = peer.max_retry_count)
    /\ (peer.pc = "loop" ~> peer.pc = "returned")

\* C33 witness: a call gave up after max_retry_count > 1 retriable failures.
C33_Witness ==
    /\ peer.pc = "returned" /\ ~peer.result.ok
    /\ peer.result.err.kind = "ExceededRetryLimit"
    /\ peer.result.err.retry_num = peer.max_retry_count
    /\ peer.max_retry_count > 1
    /\ peer.attempts = peer.max_retry_count

\* C34: a remote attempt of range / batch_get that fails with an error that
\* is not retried ends the call at once with that error: no retry delay is
\* waited and no further attempt is made.
C34_NonRetriableEndsCall ==
    /\ [][(AttemptMade /\ ~peer'.last.ok /\ ~Retriable(peer'.last.err))
             => /\ peer'.pc = "returned"
                /\ peer'.result = peer'.last
                /\ peer'.sleeps = peer.sleeps]_vars
    /\ [][peer.pc = "returned" => ~AttemptMade /\ peer'.sleeps <= peer.sleeps]_vars

\* C34 witness: after one retried attempt the second one found no header in
\* the response, and the call returned that error with one delay waited.
C34_Witness ==
    /\ peer.pc = "returned"
    /\ peer.result = Err([kind |-> "ResponseHeaderNotFound"])
    /\ peer.attempts = 2 /\ peer.sleeps = 1
    /\ peer.max_retry_count > 2

\* C35: a client without election, or whose election reports it as leader,
\* answers range and batch_get from its in-memory store without a remote
\* call; a remote call is only made with an election present, so the unwrap
\* of the election never fails; a client built with use_memory_store has no
\* election.
C35_LeaderServesLocally ==
    /\ [](peer.pc # "panicked")
    /\ [](peer.attempts > 0 => peer.election.some)
    /\ []((peer.opts.some /\ peer.opts.use_memory_store) => ~peer.election.some)
    /\ [][(peer.pc = "idle" /\ peer'.pc # "idle"
             /\ (~peer.election.some \/ peer.election.is_leader))
             => /\ peer'.pc = "returned"
                /\ peer'.result = [ok |-> TRUE, from |-> InMemory]
                /\ peer'.attempts = 0 /\ peer'.sent = <<>>]_vars

\* C35 witness: a client built with use_memory_store answered a call from
\* its in-memory store.
C35_Witness ==
    /\ peer.opts.some /\ peer.opts.use_memory_store
    /\ peer.pc = "returned" /\ peer.result.ok /\ peer.result.from.local
    /\ peer.attempts = 0

\* C36: every request of a call goes to the leader the election names when
\* the attempt is made; the leadership of the node itself is looked at only
\* before the first attempt, so a call that entered the loop goes on with
\* remote attempts, and never answers from the in-memory store, also when
\* the node has become the leader.
C36_LeaderResolvedPerAttempt ==
    /\ [][(AttemptMade /\ Len(peer'.sent) > Len(peer.sent))
             => peer'.sent[Len(peer'.sent)].to = peer.election.leader]_vars
    /\ [][(peer.pc = "loop" /\ peer'.pc = "returned" /\ peer'.result.ok)
             => ~peer'.result.from.local]_vars
    /\ [][(peer.pc = "loop" /\ peer.tries < peer.max_retry_count
             /\ peer'.election = peer.election /\ peer' # peer)
             => AttemptMade]_vars

\* C36 witness: the first request of a call was answered with not-leader;
\* the node then became the leader itself and the leader's address changed,
\* and the second request went to the new address, whose kvs were returned.
C36_Witness ==
    /\ peer.pc = "returned" /\ peer.result.ok
    /\ Len(peer.sent) = 2 /\ peer.sleeps = 1
    /\ peer.sent[1].reply = "IsNotLeader"
    /\ ~peer.sent[1].is_leader /\ peer.sent[2].is_leader
    /\ peer.sent[1].to # peer.sent[2].to
    /\ peer.result.from = Remote(peer.sent[2].to)

\* The entries of the log that call n of start or shutdown made, in order.
LogOf(n) ==
    LET RECURSIVE Sel(_)
        Sel(l) == IF l = <<>> THEN <<>>
                  ELSE IF Head(l).call = n THEN <<Head(l)>> \o Sel(Tail(l))
                  ELSE Sel(Tail(l))
    IN Sel(datanode.log)

\* Call n of start or shutdown has returned.
CallReturned(n) == n < datanode.calls \/ (n = datanode.calls /\ datanode.pc = "idle")

\* C37: start starts the instance before the services, and does not start
\* the services when the instance fails to start; shutdown shuts down the
\* services before the instance, and when the services fail to shut down it
\* returns that error without shutting down the instance.
C37_StartAndShutdownOrder ==
    /\ \A n \in 1..datanode.calls :
          LET l == LogOf(n)
          IN /\ \A i \in 1..Len(l) :
                   /\ l[i].what = "services.start"
                        => i = 2 /\ l[1] = [what |-> "instance.start", call |-> n, ok |-> TRUE]
                   /\ l[i].what = "instance.shutdown"
                        => i = 2 /\ l[1] = [what |-> "services.shutdown", call |-> n, ok |-> TRUE]
                   /\ l[i].what \in {"instance.start", "services.shutdown"} => i = 1
             /\ (CallReturned(n) /\ ~l[1].ok) => Len(l) = 1
             /\ (CallReturned(n) /\ l[1].ok) => Len(l) = 2
    /\ (datanode.pc = "idle" /\ datanode.calls > 0)
          => LET l == LogOf(datanode.calls)
             IN datanode.result = IF l[Len(l)].ok THEN Ok ELSE ErrorOf(l[Len(l)].what)

\* C37 witness: a start whose instance failed to start returned that error
\* without a call to the services, and the shutdown after it returned the
\* error of the services without a call to the instance.
C37_Witness ==
    /\ datanode.pc = "idle" /\ datanode.calls = 2
    /\ datanode.log = <<[what |-> "instance.start", call |-> 1, ok |-> FALSE],
                        [what |-> "services.shutdown", call |-> 2, ok |-> FALSE]>>
    /\ datanode.result = ErrorOf("services.shutdown")

\* A call of the generated methods was made.
CreatorCalled(op) == creator.call # [none |-> TRUE] /\ creator.call.op = op

\* C38: input_types fails with InvalidInputState until set_input_types was
\* called; the first set_input_types succeeds; a later one succeeds only
\* with a list equal to the stored one and fails with InvalidInputState
\* otherwise, and in every case the list given is the one stored afterwards.
C38_TypeStore ==
    /\ CreatorCalled("input_types")
          => /\ creator.input_types = creator.call.old
             /\ creator.result =
                   IF creator.call.old.some
                   THEN [ok |-> TRUE, value |-> creator.call.old.types]
                   ELSE Err([kind |-> "InvalidInputState"])
    /\ CreatorCalled("set_input_types")
          => /\ creator.input_types = [some |-> TRUE, types |-> creator.call.arg]
             /\ creator.result =
                   IF ~creator.call.old.some \/ creator.call.old.types = creator.call.arg
                   THEN Ok
                   ELSE Err([kind |-> "InvalidInputState"])

\* C38 witness: set_input_types was called with a list of the stored
\* length that differs in its last element; it failed, and the list is
\* stored.
C38_Witness ==
    /\ CreatorCalled("set_input_types")
    /\ creator.call.old.some
    /\ Len(creator.call.old.types) = 2 /\ Len(creator.call.arg) = 2
    /\ creator.call.old.types[1] = creator.call.arg[1]
    /\ creator.call.old.types[2] # creator.call.arg[2]
    /\ creator.result = Err([kind |-> "InvalidInputState"])
    /\ creator.input_types = [some |-> TRUE, types |-> creator.call.arg]

====
